---- MODULE Spec2Model ----
(***************************************************************************)
(* A model of tools/clash_cli.py: a command-line controller for the REST   *)
(* API of a local Clash daemon.  One invocation of the program is one run  *)
(* of main(); the persisted config file outlives the invocations.  The     *)
(* daemon, the process environment and the command line are inputs.        *)
(*                                                                         *)
(* Python values are modelled as follows.                                  *)
(*   Optional[x]   None is <<>>, a value v is <<v>>                        *)
(*   dict          a function whose domain is the set of keys present;     *)
(*                 JSON scalars are stored as <<v>> (null as <<>>),        *)
(*                 JSON arrays as sequences                                *)
(*   ordered dict  ("proxies") a sequence of [name, info] items            *)
(*   str           a TLA+ string, f-strings are built with \o              *)
(***************************************************************************)
EXTENDS Integers, Sequences, FiniteSets, TLC

VARIABLES
    store,      \* the persisted config file: [state, data]
    pc,         \* position of the running invocation, "idle" between runs
    args,       \* argparse.Namespace of the running invocation
    env,        \* os.environ of the running invocation
    client,     \* the arguments ClashClient was constructed with (Optional)
    stdout,     \* lines printed to standard output
    stderr,     \* lines printed to the error stream
    requests,   \* the HTTP exchanges of this invocation, in order
    targets,    \* test_delays: the target sequence
    idx,        \* test_delays: index of the next target
    members,    \* switch --validate: the member list fetched (Optional)
    exc,        \* the uncaught exception that ended the invocation (Optional)
    exit,       \* the exit status (Optional, None while running)
    prev        \* history: <<H, S>> when the preceding invocation was
                \* `config --host H --secret S`, else None

vars == <<store, pc, args, env, client, stdout, stderr, requests, targets,
          idx, members, exc, exit, prev>>

(***************************************************************************)
(* Bounds of the model.                                                    *)
(***************************************************************************)
MaxTargets == 2     \* longest --node list and longest group member list
MaxEntries == 2     \* most entries in one /proxies snapshot
MaxDelay == 1       \* largest delay a probe reports

(***************************************************************************)
(* Python values.                                                          *)
(***************************************************************************)
None == <<>>
Some(v) == <<v>>
Opt(S) == {None} \cup {Some(v) : v \in S}
EmptyDict == <<>>

\* dict.get(k, default)
Get(d, k, default) == IF k \in DOMAIN d THEN d[k] ELSE default

\* d[k] = v on a copy of d
Put(d, k, v) == [x \in DOMAIN d \cup {k} |-> IF x = k THEN v ELSE d[x]]

\* truthiness of an Optional[str]
Truthy(o) == o # None /\ o[1] # ""

\* str(o) inside an f-string
Fmt(o) == IF o = None THEN "None" ELSE o[1]

\* `o or alt` for an Optional[str]
OrElse(o, alt) == IF Truthy(o) THEN o[1] ELSE alt

\* sep.join(seq)
RECURSIVE Join(_, _)
Join(seq, sep) ==
    IF seq = <<>> THEN ""
    ELSE IF Len(seq) = 1 THEN seq[1]
    ELSE seq[1] \o sep \o Join(Tail(seq), sep)

\* all sequences over S of length at most n
SeqsUpTo(S, n) == UNION {[1..k -> S] : k \in 0..n}

\* the iteration orders of a Python set
Orders(S) == {q \in [1..Cardinality(S) -> S] : {q[i] : i \in DOMAIN q} = S}

Range(q) == {q[i] : i \in DOMAIN q}

(***************************************************************************)
(* Module-level defaults, read from the environment at import.             *)
(***************************************************************************)
BuiltinHost == "127.0.0.1:9090"

DEFAULT_HOST(e) == Get(e, "CLASH_API_HOST", Some(BuiltinHost))

DEFAULT_SECRET(e) == Get(e, "CLASH_API_SECRET", None)

(***************************************************************************)
(* The persisted store.                                                    *)
(***************************************************************************)
AbsentFile == [state |-> "absent", data |-> EmptyDict]
CorruptFile == [state |-> "corrupt", data |-> EmptyDict]
JsonFile(d) == [state |-> "ok", data |-> d]

ReadWarning == "config read failed"

\* load_config: the dict read, and what it prints to the error stream
load_config(file) ==
    IF file.state = "absent" THEN [data |-> EmptyDict, err |-> <<>>]
    ELSE IF file.state = "corrupt" THEN [data |-> EmptyDict, err |-> <<ReadWarning>>]
    ELSE [data |-> file.data, err |-> <<>>]

SavedLine == "config saved"

\* save_config: the file written, and what it prints
save_config(data) == [file |-> JsonFile(data), out |-> <<SavedLine>>]

(***************************************************************************)
(* main, the config sub-command.                                           *)
(***************************************************************************)
\* mutant: --secret is parsed but never put into the dict
ConfigUpdate_HostOnly(a, stored) ==
    IF a.host # None THEN Put(stored, "host", a.host) ELSE stored

\* updated = dict(stored), then the fields given on the command line
ConfigUpdate(a, stored) ==
    LET u1 == IF a.host # None THEN Put(stored, "host", a.host) ELSE stored
    IN  IF a.secret # None THEN Put(u1, "secret", a.secret) ELSE u1

ConfigChanged(a) == a.host # None \/ a.secret # None

\* mutant: the fallbacks are the built-in defaults, not the module-level ones
ShowLines_BuiltinOnly(updated, e) ==
    << "host: " \o Fmt(Get(updated, "host", Some(BuiltinHost))),
       "secret: " \o OrElse(Get(updated, "secret", None), "(empty)") >>

\* the two lines `config` prints when it shows
ShowLines(updated, e) ==
    << "host: " \o Fmt(Get(updated, "host", DEFAULT_HOST(e))),
       "secret: " \o OrElse(Get(updated, "secret", DEFAULT_SECRET(e)), "(empty)") >>

\* mutant: the dict written starts empty instead of as a copy of the store
RunConfig_Overwrite(a, e, file, stored) ==
    LET updated == ConfigUpdate(a, EmptyDict)
        changed == ConfigChanged(a)
        saved == save_config(updated)
    IN  [ file |-> IF changed THEN saved.file ELSE file,
          out |-> (IF changed THEN saved.out ELSE <<>>)
                  \o (IF a.show \/ ~changed THEN ShowLines(updated, e) ELSE <<>>) ]

\* the whole config branch: the file afterwards and the lines printed
RunConfig(a, e, file, stored) ==
    LET updated == ConfigUpdate(a, stored)
        changed == ConfigChanged(a)
        saved == save_config(updated)
    IN  [ file |-> IF changed THEN saved.file ELSE file,
          out |-> (IF changed THEN saved.out ELSE <<>>)
                  \o (IF a.show \/ ~changed THEN ShowLines(updated, e) ELSE <<>>) ]

(***************************************************************************)
(* main, resolving the effective host and secret.                          *)
(***************************************************************************)
\* mutant: the environment is consulted before the store
EffectiveHost_EnvFirst(a, stored, e) ==
    IF a.host # None THEN a.host
    ELSE Get(e, "CLASH_API_HOST", Get(stored, "host", Some(BuiltinHost)))

EffectiveHost(a, stored, e) ==
    IF a.host # None THEN a.host ELSE Get(stored, "host", DEFAULT_HOST(e))

EffectiveSecret(a, stored, e) ==
    IF a.secret # None THEN a.secret ELSE Get(stored, "secret", DEFAULT_SECRET(e))

\* ClashClient(host, secret)
ClashClient(host, secret) == [host |-> host, secret |-> secret]

(***************************************************************************)
(* ClashClient: the transport.  `reply` is what the daemon (or the network) *)
(* answers to the request; it is an input of every call.                   *)
(***************************************************************************)
Raise(e) == [kind |-> "raise", exc |-> e]          \* urlopen raises
EmptyBody == [kind |-> "empty"]                    \* 2xx, no content
Malformed == [kind |-> "malformed"]                \* 2xx, body is not JSON
Json(v) == [kind |-> "json", value |-> v]          \* 2xx, body is the JSON v

NotFound == "HTTP Error 404: Not Found"
Refused == "URLError: connection refused"
DecodeError == "JSONDecodeError"

\* the Authorization header, present only for a truthy secret
Authorization(c) == IF Truthy(c.secret) THEN Some("Bearer " \o c.secret[1]) ELSE None

\* ClashClient._request: the exchange logged, the exception raised (Optional)
\* and the value returned
Request(c, method, path, data, query, reply) ==
    LET req == [method |-> method, path |-> path, data |-> data, query |-> query,
                base |-> c.host, auth |-> Authorization(c), reply |-> reply]
    IN  CASE reply.kind = "raise" -> [req |-> req, exc |-> Some(reply.exc), value |-> EmptyDict]
          [] reply.kind = "empty" -> [req |-> req, exc |-> None, value |-> EmptyDict]
          [] reply.kind = "malformed" -> [req |-> req, exc |-> Some(DecodeError), value |-> EmptyDict]
          [] OTHER -> [req |-> req, exc |-> None, value |-> reply.value]

\* ClashClient.proxies
Proxies(c, reply) ==
    LET r == Request(c, "GET", <<"proxies">>, None, None, reply)
    IN  [req |-> r.req, exc |-> r.exc, value |-> Get(r.value, "proxies", <<>>)]

\* ClashClient.proxy
Proxy(c, name, reply) == Request(c, "GET", <<"proxies", name>>, None, None, reply)

\* ClashClient.switch
Switch(c, group, node, reply) ==
    Request(c, "PUT", <<"proxies", group>>, Some([name |-> node]), None, reply)

\* ClashClient.delay
Delay(c, name, test_url, timeout_ms, reply) ==
    Request(c, "GET", <<"proxies", name, "delay">>, None,
            Some([timeout |-> ToString(timeout_ms), url |-> test_url]), reply)

(***************************************************************************)
(* The topology model.                                                     *)
(***************************************************************************)
GroupKinds == {"Selector", "URLTest", "Fallback", "LoadBalance"}

\* mutant: one of the four kinds is forgotten
is_selector_ThreeKinds(info) ==
    LET t == Get(info, "type", None)
    IN  t # None /\ t[1] \in {"Selector", "URLTest", "Fallback"}

is_selector(info) ==
    LET t == Get(info, "type", None) IN t # None /\ t[1] \in GroupKinds

GroupLine(name, info) ==
    name \o " [" \o Fmt(Get(info, "type", Some("?"))) \o "]: now="
         \o Fmt(Get(info, "now", None)) \o "; members="
         \o Join(Get(info, "all", <<>>), ", ")

NodeLine(name, info) ==
    name \o " [" \o Fmt(Get(info, "type", Some("?"))) \o "], udp="
         \o Fmt(Get(info, "udp", None))

RECURSIVE GroupLines(_)
GroupLines(items) ==
    IF items = <<>> THEN <<>>
    ELSE (IF is_selector(items[1].info)
          THEN <<GroupLine(items[1].name, items[1].info)>> ELSE <<>>)
         \o GroupLines(Tail(items))

RECURSIVE NodeLines(_)
NodeLines(items) ==
    IF items = <<>> THEN <<>>
    ELSE (IF ~is_selector(items[1].info)
          THEN <<NodeLine(items[1].name, items[1].info)>> ELSE <<>>)
         \o NodeLines(Tail(items))

GroupsHeader == "=== Policy Groups ==="
NodesHeader == "=== Endpoint Nodes ==="

\* list_proxies, after the snapshot has been fetched
ListLines(items, show_groups, show_nodes) ==
    (IF show_groups THEN <<GroupsHeader>> \o GroupLines(items) ELSE <<>>)
    \o (IF show_nodes THEN <<NodesHeader>> \o NodeLines(items) ELSE <<>>)

NotAGroup(group) == "ValueError: '" \o group \o "' is not a policy group"

\* mutant: the entry's kind is not looked at
nodes_from_group_Unclassified(c, group, reply) ==
    LET r == Proxy(c, group, reply)
    IN  IF r.exc # None THEN [req |-> r.req, exc |-> r.exc, value |-> <<>>]
        ELSE [req |-> r.req, exc |-> None, value |-> Get(r.value, "all", <<>>)]

\* nodes_from_group
nodes_from_group(c, group, reply) ==
    LET r == Proxy(c, group, reply)
    IN  IF r.exc # None THEN [req |-> r.req, exc |-> r.exc, value |-> <<>>]
        ELSE IF ~is_selector(r.value)
             THEN [req |-> r.req, exc |-> Some(NotAGroup(group)), value |-> <<>>]
             ELSE [req |-> r.req, exc |-> None, value |-> Get(r.value, "all", <<>>)]

(***************************************************************************)
(* test_delays, one iteration of its loop.                                 *)
(***************************************************************************)
TimeoutLine(name) == name \o ": timeout/no response"
DelayMsLine(name, d) == name \o ": " \o ToString(d) \o " ms"
FailedLine(name, e) == name \o ": request failed (" \o e \o ")"

\* mutant: only a missing delay counts as no response
DelayLine_NoneOnly(name, result) ==
    LET delay == Get(result, "delay", None)
    IN  IF delay = None THEN TimeoutLine(name) ELSE DelayMsLine(name, delay[1])

\* the line printed for a probe that returned
DelayLine(name, result) ==
    LET delay == Get(result, "delay", None)
    IN  IF delay = None \/ delay[1] < 0 THEN TimeoutLine(name)
        ELSE DelayMsLine(name, delay[1])

\* mutant: no try/except, a failed probe leaves the loop
TryProbe_Propagates(name, r) ==
    IF r.exc # None
    THEN [out |-> <<>>, err |-> <<>>, raised |-> r.exc]
    ELSE [out |-> <<DelayLine(name, r.value)>>, err |-> <<>>, raised |-> None]

\* the try/except around one probe: what goes to each stream, and the
\* exception that leaves the loop (none: `except Exception` takes them all)
TryProbe(name, r) ==
    IF r.exc # None
    THEN [out |-> <<>>, err |-> <<FailedLine(name, r.exc[1])>>, raised |-> None]
    ELSE [out |-> <<DelayLine(name, r.value)>>, err |-> <<>>, raised |-> None]

(***************************************************************************)
(* parse_args: the namespaces argparse produces.  --host and --secret are  *)
(* added by Main; the other fields depend on the sub-command.              *)
(***************************************************************************)
DefaultUrl == "https://www.gstatic.com/generate_204"
DefaultTimeout == 5000

NoCommand == [command |-> None]
ConfigCmd(show) == [command |-> Some("config"), show |-> show]
ListCmd(groups, nodes) == [command |-> Some("list"), groups |-> groups, nodes |-> nodes]
PingCmd(group, node) ==
    [command |-> Some("ping"), group |-> group, node |-> node,
     url |-> DefaultUrl, timeout |-> DefaultTimeout]
SwitchCmd(group, node, validate) ==
    [command |-> Some("switch"), group |-> group, node |-> node, validate |-> validate]

UsageLine == "usage: clash_cli.py [-h] [--host HOST] [--secret SECRET] [--config CONFIG]"
NoTargetLine == "specify the nodes to test with --group or --node"
TestingLine(group, n) == "Testing group '" \o group \o "' (" \o ToString(n) \o " nodes)"
RejectLine(node, group, order) ==
    "node '" \o node \o "' is not in policy group '" \o group \o "'. members: "
    \o Join(order, ", ")
TracebackLine(e) == "Traceback (most recent call last): " \o e

\* json.dumps(result, indent=2) of the PUT's answer
Dumps(v) == IF DOMAIN v = {} THEN "{}" ELSE "{\"message\": \"" \o Fmt(v["message"]) \o "\"}"

\* mutant: the membership test always passes
IsMember_Unchecked(node, memberSet) == TRUE

\* `args.node not in members`, negated
IsMember(node, memberSet) == node \in memberSet

(***************************************************************************)
(* The actions.  U is the universe the inputs are drawn from.              *)
(***************************************************************************)
Init(U) ==
    /\ store \in U.stores
    /\ pc = "idle"
    /\ args = EmptyDict
    /\ env = EmptyDict
    /\ client = None
    /\ stdout = <<>>
    /\ stderr = <<>>
    /\ requests = <<>>
    /\ targets = <<>>
    /\ idx = 1
    /\ members = None
    /\ exc = None
    /\ exit = None
    /\ prev = None

\* mutant: sys.exit(code) is replaced by a plain return
Exits_Zero(code) == pc' = "exited" /\ exit' = Some(0) /\ exc' = None

\* the invocation ends with sys.exit(code) or by returning from main
Exits(code) == pc' = "exited" /\ exit' = Some(code) /\ exc' = None

\* the invocation ends with an uncaught exception
Dies(e) == pc' = "exited" /\ exit' = Some(1) /\ exc' = Some(e)

\* main, from parse_args up to its first request
Main(U) ==
    /\ pc = "idle"
    /\ \E c \in U.cmds, h \in U.flagHost, s \in U.flagSecret, e \in U.envs :
        LET a == c @@ [host |-> h, secret |-> s]
            loaded == load_config(store)
            stored == loaded.data
            built == Some(ClashClient(EffectiveHost(a, stored, e),
                                      EffectiveSecret(a, stored, e)))
        IN  /\ args' = a
            /\ env' = e
            /\ UNCHANGED <<requests, idx, members, prev>>
            /\ CASE a.command = None ->
                    /\ stdout' = <<UsageLine>>
                    /\ stderr' = <<>>
                    /\ Exits(1)
                    /\ UNCHANGED <<store, client, targets>>
                 [] a.command = Some("config") ->
                    LET r == RunConfig(a, e, store, stored)
                    IN  /\ store' = r.file
                        /\ stdout' = r.out
                        /\ stderr' = loaded.err
                        /\ Exits(0)
                        /\ UNCHANGED <<client, targets>>
                 [] a.command = Some("list") ->
                    /\ client' = built
                    /\ pc' = "list"
                    /\ stdout' = <<>>
                    /\ stderr' = loaded.err
                    /\ UNCHANGED <<store, targets, exc, exit>>
                 [] a.command = Some("ping") ->
                    /\ client' = built
                    /\ stdout' = <<>>
                    /\ UNCHANGED store
                    /\ IF Truthy(a.group)
                       THEN /\ pc' = "ping_group"
                            /\ stderr' = loaded.err
                            /\ UNCHANGED <<targets, exc, exit>>
                       ELSE IF a.node = <<>>
                       THEN /\ stderr' = loaded.err \o <<NoTargetLine>>
                            /\ Exits(1)
                            /\ UNCHANGED targets
                       ELSE /\ targets' = a.node
                            /\ pc' = "probe"
                            /\ stderr' = loaded.err
                            /\ UNCHANGED <<exc, exit>>
                 [] a.command = Some("switch") ->
                    /\ client' = built
                    /\ pc' = IF a.validate THEN "validate" ELSE "put"
                    /\ stdout' = <<>>
                    /\ stderr' = loaded.err
                    /\ UNCHANGED <<store, targets, exc, exit>>

\* main, the list branch: list_proxies
ListProxies(U) ==
    /\ pc = "list"
    /\ \E reply \in U.proxiesReplies :
        LET r == Proxies(client[1], reply)
            show_groups == args.groups \/ ~args.nodes
            show_nodes == args.nodes \/ ~args.groups
        IN  /\ requests' = Append(requests, r.req)
            /\ IF r.exc # None
               THEN /\ stderr' = stderr \o <<TracebackLine(r.exc[1])>>
                    /\ Dies(r.exc[1])
                    /\ UNCHANGED stdout
               ELSE /\ stdout' = stdout \o ListLines(r.value, show_groups, show_nodes)
                    /\ Exits(0)
                    /\ UNCHANGED stderr
    /\ UNCHANGED <<store, args, env, client, targets, idx, members, prev>>

\* main, the ping branch with --group: the members become the targets
PingGroup(U) ==
    /\ pc = "ping_group"
    /\ \E reply \in U.proxyReplies :
        LET r == nodes_from_group(client[1], args.group[1], reply)
        IN  /\ requests' = Append(requests, r.req)
            /\ IF r.exc # None
               THEN /\ stderr' = stderr \o <<TracebackLine(r.exc[1])>>
                    /\ Dies(r.exc[1])
                    /\ UNCHANGED <<stdout, targets>>
               ELSE /\ targets' = r.value
                    /\ stdout' = stdout \o <<TestingLine(args.group[1], Len(r.value))>>
                    /\ pc' = "probe"
                    /\ UNCHANGED <<stderr, exc, exit>>
    /\ UNCHANGED <<store, args, env, client, idx, members, prev>>

\* test_delays: one iteration of the loop
Probe(U) ==
    /\ pc = "probe"
    /\ idx <= Len(targets)
    /\ \E reply \in U.delayReplies :
        LET name == targets[idx]
            r == Delay(client[1], name, args.url, args.timeout, reply)
            t == TryProbe(name, r)
        IN  /\ requests' = Append(requests, r.req)
            /\ stdout' = stdout \o t.out
            /\ IF t.raised # None
               THEN /\ stderr' = stderr \o t.err \o <<TracebackLine(t.raised[1])>>
                    /\ Dies(t.raised[1])
                    /\ UNCHANGED idx
               ELSE /\ stderr' = stderr \o t.err
                    /\ idx' = idx + 1
                    /\ UNCHANGED <<pc, exc, exit>>
    /\ UNCHANGED <<store, args, env, client, targets, members, prev>>

\* test_delays returns after the last target, and main after it
PingReturn ==
    /\ pc = "probe"
    /\ idx > Len(targets)
    /\ Exits(0)
    /\ UNCHANGED <<store, args, env, client, stdout, stderr, requests, targets,
                   idx, members, prev>>

\* main, the switch branch with --validate: the membership check
SwitchValidate(U) ==
    /\ pc = "validate"
    /\ \E reply \in U.proxyReplies :
        LET r == nodes_from_group(client[1], args.group, reply)
            memberSet == Range(r.value)
        IN  /\ requests' = Append(requests, r.req)
            /\ IF r.exc # None
               THEN /\ stderr' = stderr \o <<TracebackLine(r.exc[1])>>
                    /\ Dies(r.exc[1])
                    /\ UNCHANGED <<stdout, members>>
               ELSE /\ members' = Some(memberSet)
                    /\ UNCHANGED stderr
                    /\ IF IsMember(args.node, memberSet)
                       THEN /\ pc' = "put"
                            /\ UNCHANGED <<stdout, exc, exit>>
                       ELSE /\ \E order \in Orders(memberSet) :
                                  stdout' = stdout \o <<RejectLine(args.node, args.group, order)>>
                            /\ Exits(1)
    /\ UNCHANGED <<store, args, env, client, targets, idx, prev>>

\* main, the switch branch: the PUT and the echo of its answer
SwitchPut(U) ==
    /\ pc = "put"
    /\ \E reply \in U.switchReplies :
        LET r == Switch(client[1], args.group, args.node, reply)
        IN  /\ requests' = Append(requests, r.req)
            /\ IF r.exc # None
               THEN /\ stderr' = stderr \o <<TracebackLine(r.exc[1])>>
                    /\ Dies(r.exc[1])
                    /\ UNCHANGED stdout
               ELSE /\ stdout' = stdout \o <<Dumps(r.value)>>
                    /\ Exits(0)
                    /\ UNCHANGED stderr
    /\ UNCHANGED <<store, args, env, client, targets, idx, members, prev>>

\* the process is gone; only the config file remains
Reap ==
    /\ pc = "exited"
    /\ pc' = "idle"
    /\ prev' = IF /\ args.command = Some("config")
                  /\ args.host # None
                  /\ args.secret # None
               THEN Some(<<args.host[1], args.secret[1]>>)
               ELSE None
    /\ args' = EmptyDict
    /\ env' = EmptyDict
    /\ client' = None
    /\ stdout' = <<>>
    /\ stderr' = <<>>
    /\ requests' = <<>>
    /\ targets' = <<>>
    /\ idx' = 1
    /\ members' = None
    /\ exc' = None
    /\ exit' = None
    /\ UNCHANGED store

Next(U) ==
    \/ Main(U)
    \/ ListProxies(U)
    \/ PingGroup(U)
    \/ Probe(U)
    \/ PingReturn
    \/ SwitchValidate(U)
    \/ SwitchPut(U)
    \/ Reap

(***************************************************************************)
(* The inputs.  Two universes: one rich in daemon answers and command      *)
(* lines, one rich in flag, store and environment values.                  *)
(***************************************************************************)
NodeNames == {"n1", "n2"}
EntryNames == {"Proxy"} \cup NodeNames

\* dicts with at most the keys k1 and k2, over the values V1 and V2
Dicts2(k1, V1, k2, V2) ==
    LET A == {EmptyDict} \cup {k1 :> Some(v) : v \in V1}
        B == {EmptyDict} \cup {k2 :> Some(v) : v \in V2}
    IN  {a @@ b : a \in A, b \in B}

Files(H, S) == {AbsentFile, CorruptFile} \cup {JsonFile(d) : d \in Dicts2("host", H, "secret", S)}

Envs(H, S) == Dicts2("CLASH_API_HOST", H, "CLASH_API_SECRET", S)

GroupInfo(kind, all) ==
    [type |-> Some(kind), now |-> IF all = <<>> THEN None ELSE Some(all[1]), all |-> all]

NodeInfo(protocol) == [type |-> Some(protocol), udp |-> Some("True")]

\* entries as GET /proxies/{name} returns them
NodeInfos == {NodeInfo("Shadowsocks"), [udp |-> Some("False")], EmptyDict}

GroupInfos ==
    {GroupInfo("Selector", all) : all \in SeqsUpTo(NodeNames, MaxTargets)}
    \cup {GroupInfo(k, <<"n1">>) : k \in GroupKinds}
    \cup {[type |-> Some("URLTest")]}

\* the entries of a /proxies snapshot: one of each group kind, and nodes
SnapshotInfos ==
    {GroupInfo(k, <<"n1", "n2">>) : k \in GroupKinds}
    \cup {NodeInfo("Shadowsocks"), [udp |-> Some("False")]}

\* snapshots: at most MaxEntries items with distinct names
Snapshots ==
    {q \in SeqsUpTo([name : EntryNames, info : SnapshotInfos], MaxEntries) :
        \A i, j \in DOMAIN q : q[i].name = q[j].name => i = j}

ProxiesReplies ==
    {Raise(Refused), EmptyBody, Json(EmptyDict)} \cup {Json([proxies |-> q]) : q \in Snapshots}

ProxyReplies ==
    {Raise(NotFound), Raise(Refused), EmptyBody, Malformed}
    \cup {Json(i) : i \in NodeInfos \cup GroupInfos}

DelayReplies ==
    {Raise(Refused), EmptyBody, Json(EmptyDict), Json([delay |-> None])}
    \cup {Json([delay |-> Some(d)]) : d \in -2..MaxDelay}

SwitchReplies ==
    {Raise("HTTP Error 400: Bad Request"), EmptyBody, Json([message |-> Some("ok")])}

NetCmds ==
    {NoCommand, ConfigCmd(TRUE)}
    \cup {ListCmd(g, n) : g, n \in BOOLEAN}
    \cup {PingCmd(g, n) : g \in {None, Some("")}, n \in SeqsUpTo(NodeNames, MaxTargets)}
    \cup {PingCmd(Some("Proxy"), n) : n \in {<<>>, <<"n2">>}}
    \cup {SwitchCmd("Proxy", n, v) : n \in NodeNames, v \in BOOLEAN}

NetUniverse ==
    [ cmds |-> NetCmds,
      flagHost |-> {None},
      flagSecret |-> {None},
      envs |-> {EmptyDict},
      stores |-> {AbsentFile, CorruptFile, JsonFile([secret |-> Some("s3cret")])},
      proxiesReplies |-> ProxiesReplies,
      proxyReplies |-> ProxyReplies,
      delayReplies |-> DelayReplies,
      switchReplies |-> SwitchReplies ]

HostValues == {"", "10.0.0.1:9090", "router:9090"}
SecretValues == {"", "s3cret", "(empty)"}

ConfigCmds ==
    {NoCommand, ListCmd(FALSE, FALSE), PingCmd(None, <<>>), PingCmd(None, <<"n1">>),
     PingCmd(Some("Proxy"), <<>>), SwitchCmd("Proxy", "n1", TRUE)}
    \cup {ConfigCmd(show) : show \in BOOLEAN}

ConfigUniverse ==
    [ cmds |-> ConfigCmds,
      flagHost |-> Opt(HostValues),
      flagSecret |-> Opt(SecretValues),
      envs |-> Envs(HostValues, SecretValues),
      stores |-> Files(HostValues, SecretValues),
      proxiesReplies |-> {Raise(Refused)},
      proxyReplies |-> {Raise(NotFound), Json(GroupInfo("Selector", <<"n1">>))},
      delayReplies |-> {Raise(Refused), Json([delay |-> Some(0)])},
      switchReplies |-> {EmptyBody} ]

\* every command line against every daemon answer
Spec == Init(NetUniverse) /\ [][Next(NetUniverse)]_vars

\* every flag, store and environment value
SpecConfig == Init(ConfigUniverse) /\ [][Next(ConfigUniverse)]_vars

(***************************************************************************)
(* What the properties below read off a state.                             *)
(***************************************************************************)
Running(c) == pc # "idle" /\ args.command = Some(c)

\* the store as a reader of the file sees it
StoreHas(k) == store.state = "ok" /\ k \in DOMAIN store.data
EnvHas(k) == k \in DOMAIN env

\* the value of one field after the four tiers
Tiers(flag, key, var, default) ==
    IF flag # None THEN flag
    ELSE IF StoreHas(key) THEN store.data[key]
    ELSE IF EnvHas(var) THEN env[var]
    ELSE default

IsProbe(r) == r.method = "GET" /\ Len(r.path) = 3 /\ r.path[3] = "delay"
IsPut(r) == r.method = "PUT"
Probes == SelectSeq(requests, IsProbe)

TransportError(reply) == reply.kind \in {"raise", "malformed"}
ErrorText(reply) == IF reply.kind = "raise" THEN reply.exc ELSE "JSONDecodeError"

\* the daemon answered with an entry of one of the four group kinds
IsGroupReply(reply) ==
    /\ reply.kind = "json"
    /\ "type" \in DOMAIN reply.value
    /\ reply.value["type"] \in {<<"Selector">>, <<"URLTest">>, <<"Fallback">>, <<"LoadBalance">>}

\* the daemon answered with an entry that is not of a group kind
IsNonGroupReply(reply) == ~TransportError(reply) /\ ~IsGroupReply(reply)

MembersIn(reply) == IF "all" \in DOMAIN reply.value THEN reply.value["all"] ELSE <<>>

\* ping has resolved its targets and runs, or has run, the batch
GroupGiven == args.group # None /\ args.group # <<"">>
Batch ==
    /\ pc \in {"probe", "exited"}
    /\ args.command = Some("ping")
    /\ IF GroupGiven THEN requests # <<>> /\ IsGroupReply(requests[1].reply)
       ELSE args.node # <<>>
BatchTargets == IF GroupGiven THEN MembersIn(requests[1].reply) ELSE args.node

\* lines that precede the reports on each stream
OutBase == IF GroupGiven THEN 1 ELSE 0
ErrBase == IF store.state = "corrupt" THEN 1 ELSE 0

\* how many of the first k probes failed in transport
NFail(k) == Cardinality({i \in 1..k : TransportError(Probes[i].reply)})

(***************************************************************************)
(* C1.  For host and for secret, each on its own: the value the client of  *)
(* list, ping and switch is built with is the flag when the flag is given, *)
(* else the store's value when the store has the key, else the environment *)
(* variable when it is set, else the built-in default (127.0.0.1:9090 for  *)
(* host, None for secret).                                                 *)
(***************************************************************************)
C1_Precedence ==
    (Running("list") \/ Running("ping") \/ Running("switch")) =>
        /\ client # None
        /\ client[1].host = Tiers(args.host, "host", "CLASH_API_HOST", <<"127.0.0.1:9090">>)
        /\ client[1].secret = Tiers(args.secret, "secret", "CLASH_API_SECRET", <<>>)

\* host: no flag, store and environment disagree; secret: the environment alone
C1_Witness ==
    /\ Running("switch")
    /\ args.host = None /\ StoreHas("host") /\ EnvHas("CLASH_API_HOST")
    /\ store.data["host"] # env["CLASH_API_HOST"]
    /\ args.secret = None /\ ~StoreHas("secret") /\ EnvHas("CLASH_API_SECRET")
    /\ client[1].secret = <<"s3cret">>

(***************************************************************************)
(* C2.  In a ping batch, whatever subset of the probes fails in transport: *)
(* the targets are probed once each in input order and nothing else is     *)
(* requested, every probed target has exactly one report (a failure line   *)
(* on the error stream if its probe failed, else a delay or timeout line   *)
(* on standard output), the loop can always go on, and the invocation ends *)
(* only after the last target, with status 0 and no exception.             *)
(***************************************************************************)
C2_BatchNeverAborts ==
    Batch =>
        LET T == BatchTargets
            n == Len(Probes)
        IN  /\ n <= Len(T)
            /\ Len(requests) = OutBase + n
            /\ \A i \in 1..n : Probes[i].path = <<"proxies", T[i], "delay">>
            /\ Len(stdout) = OutBase + n - NFail(n)
            /\ Len(stderr) = ErrBase + NFail(n)
            /\ \A i \in 1..n :
                IF TransportError(Probes[i].reply)
                THEN stderr[ErrBase + NFail(i)]
                        = T[i] \o ": request failed (" \o ErrorText(Probes[i].reply) \o ")"
                ELSE stdout[OutBase + i - NFail(i)]
                        \in {T[i] \o ": timeout/no response"}
                            \cup {T[i] \o ": " \o ToString(d) \o " ms" : d \in 0..MaxDelay}
            /\ pc = "probe" => /\ exc = None /\ exit = None
                               /\ (n = Len(T) => ENABLED PingReturn)
                               /\ (n < Len(T) => ENABLED Probe(NetUniverse))
            /\ pc = "exited" => n = Len(T) /\ exit = Some(0) /\ exc = None

\* a finished batch whose first probe failed and whose last one answered
C2_Witness ==
    /\ Batch /\ pc = "exited"
    /\ Len(Probes) = Len(BatchTargets) /\ Len(Probes) >= 2
    /\ TransportError(Probes[1].reply)
    /\ ~TransportError(Probes[Len(Probes)].reply)
    /\ exit = Some(0)

(***************************************************************************)
(* C3.  switch --validate issues the PUT only when the node is in the      *)
(* member list of the group entry it has just fetched; when the node is    *)
(* not a member it prints the members, exits with status 1 and issues no   *)
(* PUT.                                                                    *)
(***************************************************************************)
Validating == Running("switch") /\ args.validate
Fetched == requests # <<>> /\ IsGroupReply(requests[1].reply)
FetchedMembers == {MembersIn(requests[1].reply)[i] : i \in DOMAIN MembersIn(requests[1].reply)}

C3_ValidateGuardsPut ==
    Validating =>
        /\ (\E i \in DOMAIN requests : IsPut(requests[i]))
                => Fetched /\ args.node \in FetchedMembers
        /\ (Fetched /\ args.node \notin FetchedMembers) =>
                /\ pc = "exited"
                /\ exit = Some(1)
                /\ Len(requests) = 1
                /\ \E order \in Orders(FetchedMembers) :
                        stdout = << "node '" \o args.node \o "' is not in policy group '"
                                    \o args.group \o "'. members: " \o Join(order, ", ") >>

\* the node is rejected against a group whose only member is another node
C3_Witness ==
    /\ Validating /\ Fetched
    /\ FetchedMembers = {"n1"}
    /\ args.node = "n2"
    /\ pc = "exited"

(***************************************************************************)
(* C4.  For every probe that answered, the line printed for the target is  *)
(* "timeout/no response" exactly when the answer has no delay (an empty    *)
(* body or an empty mapping included), a null delay or a negative one, and *)
(* "<delay> ms" exactly when the delay is an integer >= 0; no negative     *)
(* number is printed as a delay.                                           *)
(***************************************************************************)
NoDelay(reply) ==
    \/ reply.kind = "empty"
    \/ "delay" \notin DOMAIN reply.value
    \/ reply.value["delay"] = <<>>
    \/ reply.value["delay"][1] < 0

C4_DelayNormalised ==
    Batch =>
        \A i \in 1..Len(Probes) :
            ~TransportError(Probes[i].reply) =>
                LET name == BatchTargets[i]
                    line == stdout[OutBase + i - NFail(i)]
                    reply == Probes[i].reply
                IN  /\ (line = name \o ": timeout/no response") <=> NoDelay(reply)
                    /\ ~NoDelay(reply) =>
                            line = name \o ": " \o ToString(reply.value["delay"][1]) \o " ms"
                    /\ \A d \in -2..-1 : line # name \o ": " \o ToString(d) \o " ms"

\* a zero delay printed as a delay, after a negative one printed as a timeout
C4_Witness ==
    /\ Batch /\ Len(Probes) = 2
    /\ Probes[1].reply = Json([delay |-> Some(-1)])
    /\ Probes[2].reply = Json([delay |-> Some(0)])
    /\ stdout[OutBase + 1] = BatchTargets[1] \o ": timeout/no response"
    /\ stdout[OutBase + 2] = BatchTargets[2] \o ": 0 ms"

(***************************************************************************)
(* C5.  Round trip of the store, as stated: after `config --host H         *)
(* --secret S`, the next invocation, `config --show` with no other flag,   *)
(* prints exactly H as host and exactly S as secret.                       *)
(***************************************************************************)
ShowAfterSet ==
    /\ prev # None
    /\ Running("config")
    /\ args.show /\ args.host = None /\ args.secret = None

C5_RoundTripExact ==
    ShowAfterSet => stdout = << "host: " \o prev[1][1], "secret: " \o prev[1][2] >>

(***************************************************************************)
(* C5, amended.  ... prints exactly H as host, and as secret exactly S     *)
(* when S is not the empty string and "(empty)" when it is; whatever the   *)
(* store held before and whatever the environment holds.                   *)
(***************************************************************************)
C5_RoundTrip ==
    ShowAfterSet =>
        stdout = << "host: " \o prev[1][1],
                    "secret: " \o (IF prev[1][2] = "" THEN "(empty)" ELSE prev[1][2]) >>

\* the values come back although the environment offers others
C5_Witness ==
    /\ ShowAfterSet
    /\ prev = Some(<<"router:9090", "s3cret">>)
    /\ env = [CLASH_API_HOST |-> Some("10.0.0.1:9090"), CLASH_API_SECRET |-> Some("")]
    /\ stdout = <<"host: router:9090", "secret: s3cret">>

(***************************************************************************)
(* C6.  As stated: when config shows (asked to, or nothing was set), it    *)
(* prints for each field the store's value if the store has it and else    *)
(* the built-in default, whatever the flags and the environment.           *)
(***************************************************************************)
ConfigShows ==
    /\ Running("config")
    /\ args.show \/ (args.host = None /\ args.secret = None)

\* the last two lines printed, given the two values to show
ShownAs(host, secret) ==
    /\ Len(stdout) >= 2
    /\ stdout[Len(stdout) - 1] = "host: " \o host[1]
    /\ stdout[Len(stdout)] = "secret: " \o (IF secret = <<>> \/ secret = <<"">>
                                            THEN "(empty)" ELSE secret[1])

C6_ShowStoreOrBuiltin ==
    ConfigShows =>
        ShownAs(IF StoreHas("host") THEN store.data["host"] ELSE <<"127.0.0.1:9090">>,
                IF StoreHas("secret") THEN store.data["secret"] ELSE <<>>)

(***************************************************************************)
(* C6, amended.  When config shows, it prints for each field the store's   *)
(* value (as it is after this invocation's write) if the store has it,     *)
(* else the environment variable if it is set, else the built-in default;  *)
(* an absent or empty secret is printed as "(empty)".  Flags count only    *)
(* through what this invocation has persisted.                             *)
(***************************************************************************)
C6_ShowStoreEnvOrBuiltin ==
    ConfigShows =>
        ShownAs(Tiers(<<>>, "host", "CLASH_API_HOST", <<"127.0.0.1:9090">>),
                Tiers(<<>>, "secret", "CLASH_API_SECRET", <<>>))

\* nothing stored for host, the environment names one: that one is shown
C6_Witness ==
    /\ ConfigShows
    /\ ~StoreHas("host") /\ EnvHas("CLASH_API_HOST")
    /\ env["CLASH_API_HOST"] = <<"router:9090">>
    /\ stdout[1] = "host: router:9090"

(***************************************************************************)
(* C7.  Where ping --group or switch --validate resolves the members of    *)
(* the named entry: if the daemon answers with an entry that is not of a   *)
(* group kind the invocation dies with the "not a policy group" error; if  *)
(* the daemon has no such entry (it answers 404) the invocation dies with  *)
(* the HTTP "Not Found" error, a different one; either way the status is   *)
(* non-zero and the lookup is the only request made.                       *)
(***************************************************************************)
Resolving ==
    \/ Running("ping") /\ GroupGiven
    \/ Validating
ResolvedGroup == IF Running("ping") THEN args.group[1] ELSE args.group

C7_TopologyErrors ==
    (Resolving /\ requests # <<>>) =>
        /\ requests[1].method = "GET" /\ requests[1].path = <<"proxies", ResolvedGroup>>
        /\ IsNonGroupReply(requests[1].reply) =>
                /\ pc = "exited"
                /\ exc = Some("ValueError: '" \o ResolvedGroup \o "' is not a policy group")
                /\ exit = Some(1)
                /\ Len(requests) = 1
        /\ requests[1].reply = Raise("HTTP Error 404: Not Found") =>
                /\ pc = "exited"
                /\ exc = Some("HTTP Error 404: Not Found")
                /\ exc # Some("ValueError: '" \o ResolvedGroup \o "' is not a policy group")
                /\ exit = Some(1)
                /\ Len(requests) = 1

\* ping --group on an entry that is a leaf node
C7_Witness ==
    /\ Running("ping") /\ GroupGiven
    /\ requests # <<>>
    /\ requests[1].reply = Json(NodeInfo("Shadowsocks"))
    /\ pc = "exited" /\ exit = Some(1)
    /\ stdout = <<>>

(***************************************************************************)
(* C8.  In every snapshot an entry is a group exactly when its kind is one *)
(* of Selector, URLTest, Fallback, LoadBalance, and a node otherwise.      *)
(* list with no flag prints the groups header, one line per group in the   *)
(* snapshot's order, the nodes header, one line per node in the snapshot's *)
(* order: every entry once.  That is what list --groups prints followed by *)
(* what list --nodes prints.                                               *)
(***************************************************************************)
KindIsGroup(item) ==
    /\ "type" \in DOMAIN item.info
    /\ item.info["type"] \in {<<"Selector">>, <<"URLTest">>, <<"Fallback">>, <<"LoadBalance">>}
KindIsNode(item) == ~KindIsGroup(item)

Listed == Running("list") /\ pc = "exited" /\ exit = Some(0)
Snapshot ==
    IF requests[1].reply.kind = "json" /\ "proxies" \in DOMAIN requests[1].reply.value
    THEN requests[1].reply.value["proxies"] ELSE <<>>

GroupBlock ==
    LET g == SelectSeq(Snapshot, KindIsGroup)
    IN  <<"=== Policy Groups ===">> \o [i \in 1..Len(g) |-> GroupLine(g[i].name, g[i].info)]
NodeBlock ==
    LET n == SelectSeq(Snapshot, KindIsNode)
    IN  <<"=== Endpoint Nodes ===">> \o [i \in 1..Len(n) |-> NodeLine(n[i].name, n[i].info)]

C8_ListPartition ==
    Listed =>
        /\ \A i \in DOMAIN Snapshot : is_selector(Snapshot[i].info) <=> KindIsGroup(Snapshot[i])
        /\ (~args.groups /\ ~args.nodes) =>
                /\ stdout = GroupBlock \o NodeBlock
                /\ Len(stdout) = 2 + Len(Snapshot)
        /\ (args.groups /\ ~args.nodes) => stdout = GroupBlock
        /\ (~args.groups /\ args.nodes) => stdout = NodeBlock

\* no flag, a snapshot with a LoadBalance group after a node
C8_Witness ==
    /\ Listed
    /\ ~args.groups /\ ~args.nodes
    /\ Len(Snapshot) = 2
    /\ KindIsNode(Snapshot[1])
    /\ KindIsGroup(Snapshot[2])
    /\ Snapshot[2].info["type"] = <<"LoadBalance">>
    /\ Len(stdout) = 4

(***************************************************************************)
(* C9.  As stated: an invocation ends with a non-zero status exactly when  *)
(* ping has neither a group nor a node (and then no request was made),     *)
(* when switch --validate rejects the node, or when an unrecoverable error *)
(* occurred; a failed probe is no such error.                              *)
(***************************************************************************)
PingNoTarget == Running("ping") /\ ~GroupGiven /\ args.node = <<>>
ValidateRejects == Validating /\ Fetched /\ args.node \notin FetchedMembers
Unrecoverable ==
    \/ \E i \in DOMAIN requests : ~IsProbe(requests[i]) /\ TransportError(requests[i].reply)
    \/ Resolving /\ requests # <<>> /\ IsNonGroupReply(requests[1].reply)

C9_ExitStatusAsStated ==
    pc = "exited" =>
        /\ exit # Some(0) <=> (PingNoTarget \/ ValidateRejects \/ Unrecoverable)
        /\ PingNoTarget => requests = <<>>

(***************************************************************************)
(* C9, amended.  ... exactly when no sub-command is given, when ping has   *)
(* neither a non-empty group nor a node (and then no request was made),    *)
(* when switch --validate rejects the node, or when an unrecoverable error *)
(* occurred; a failed probe is no such error.                              *)
(***************************************************************************)
C9_ExitStatus ==
    pc = "exited" =>
        /\ exit # Some(0) <=>
                (args.command = None \/ PingNoTarget \/ ValidateRejects \/ Unrecoverable)
        /\ PingNoTarget => requests = <<>>

\* a batch in which every probe failed ends with status 0
C9_Witness ==
    /\ Batch /\ pc = "exited"
    /\ Len(Probes) = 2
    /\ \A i \in 1..2 : TransportError(Probes[i].reply)
    /\ exit = Some(0)

(***************************************************************************)
(* C10.  Only a config invocation that sets host or secret changes the     *)
(* store (or creates it): no step of list, ping, switch or a config that   *)
(* only shows does, whatever the flags; and a config invocation that sets  *)
(* one field alone leaves the other field of the store as it was.          *)
(***************************************************************************)
StoredField(k) == IF StoreHas(k) THEN store.data[k] ELSE None

C10_StoreFrame ==
    [][ /\ store' # store =>
            /\ pc = "idle"
            /\ args'.command = Some("config")
            /\ args'.host # None \/ args'.secret # None
        /\ (pc = "idle" /\ pc' # "idle" /\ args'.command = Some("config")) =>
            /\ args'.secret = None => StoredField("secret")' = StoredField("secret")
            /\ args'.host = None => StoredField("host")' = StoredField("host")
      ]_vars

\* config --host alone has replaced the host and kept the secret
C10_Witness ==
    /\ Running("config")
    /\ args.host = <<"router:9090">> /\ args.secret = None
    /\ prev = Some(<<"10.0.0.1:9090", "s3cret">>)
    /\ store.data = [host |-> <<"router:9090">>, secret |-> <<"s3cret">>]

====
